---- MODULE Spec2Model ----
(***************************************************************************)
(* Model of the KPI dashboard (src/App.py): the status classifier          *)
(* calculate_kpi_status, the Supabase-backed record store (table "kpis")   *)
(* with save / load / update / list operations, and the per-session        *)
(* project authentication.                                                 *)
(*                                                                         *)
(* Numbers are integers; the quotients of calculate_kpi_status are kept as *)
(* exact fractions <<numerator, denominator>> and compared by cross        *)
(* multiplication.                                                         *)
(***************************************************************************)
EXTENDS Integers, Sequences, FiniteSets, TLC

----------------------------------------------------------------------------
(* Bounds *)

MaxValue == 10
MaxDay == 3
MaxRows == 2

----------------------------------------------------------------------------
(* Python values handed to calculate_kpi_status *)

Num(n) == [n |-> n, tag |-> "num"]
NoneValue == [n |-> 0, tag |-> "none"]
TextValue == [n |-> 0, tag |-> "text"]

Date(d) == [tag |-> "date", d |-> d]
NoneDate == [tag |-> "none", d |-> 0]

Numbers == (-1 .. MaxValue) \cup {50, 95, 100}
Values == {Num(n) : n \in Numbers} \cup {NoneValue, TextValue}
Days == (0 .. MaxDay) \cup {10, 18, 20}
Dates == {Date(d) : d \in Days} \cup {NoneDate}

\* float(x) succeeds on numbers, raises TypeError on None and ValueError on text
Coercible(x) == x.tag = "num"
float(x) == x.n

\* fractions and their comparison with a decimal literal p/q (q > 0)
Frac(a, b) == <<a, b>>
FracMul(f, k) == <<f[1] * k, f[2]>>
FracDivInto(c, f) == <<c * f[2], f[1]>>
FracGE(f, p, q) == f[1] * q >= p * f[2]
FracLE0(f) == f[1] <= 0

OnTrackGE_strict(progress_ratio) == progress_ratio[1] * 10 > 9 * progress_ratio[2]
OnTrackGE(progress_ratio) == FracGE(progress_ratio, 9, 10)

AtRiskGE(progress_ratio) == FracGE(progress_ratio, 7, 10)

Threshold_swapped(progress_ratio) ==
    IF OnTrackGE(progress_ratio) THEN "At Risk"
    ELSE IF AtRiskGE(progress_ratio) THEN "On Track"
    ELSE "Delayed"
Threshold(progress_ratio) ==
    IF OnTrackGE(progress_ratio) THEN "On Track"
    ELSE IF AtRiskGE(progress_ratio) THEN "At Risk"
    ELSE "Delayed"

NotBegun_elapsed_only(elapsed_days, total_days) == elapsed_days <= 0
NotBegun(elapsed_days, total_days) == elapsed_days <= 0 \/ total_days <= 0

\* the part of calculate_kpi_status that reads the dates (lines 188-206);
\* date arithmetic on None raises TypeError, a division by 0 ZeroDivisionError
Paced(current, target, start, end, now_date) ==
    IF start.tag = "none" \/ end.tag = "none" THEN "TypeError"
    ELSE LET total_days == end.d - start.d
             elapsed_days == now_date - start.d
         IN IF NotBegun(elapsed_days, total_days) THEN "Not Started"
            ELSE IF total_days = 0 THEN "ZeroDivisionError"
            ELSE LET expected_progress == FracMul(Frac(elapsed_days, total_days), target)
                 IN IF FracLE0(expected_progress) THEN "Not Started"
                    ELSE Threshold(FracDivInto(current, expected_progress))

calculate_kpi_status_dates_first(cv, tv, start, end, now_date) ==
    IF ~Coercible(cv) \/ ~Coercible(tv) THEN "Not Started"
    ELSE IF start.tag = "none" \/ end.tag = "none" THEN "TypeError"
    ELSE IF now_date - start.d <= 0 \/ end.d - start.d <= 0 THEN "Not Started"
    ELSE IF float(tv) <= 0 THEN "Not Started"
    ELSE IF float(cv) >= float(tv) THEN "Achieved"
    ELSE Paced(float(cv), float(tv), start, end, now_date)

calculate_kpi_status_no_target_guard(cv, tv, start, end, now_date) ==
    IF ~Coercible(cv) \/ ~Coercible(tv) THEN "Not Started"
    ELSE IF float(cv) >= float(tv) THEN "Achieved"
    ELSE IF float(tv) <= 0 THEN "Not Started"
    ELSE Paced(float(cv), float(tv), start, end, now_date)

calculate_kpi_status(cv, tv, start, end, now_date) ==
    IF ~Coercible(cv) \/ ~Coercible(tv) THEN "Not Started"
    ELSE IF float(tv) <= 0 THEN "Not Started"
    ELSE IF float(cv) >= float(tv) THEN "Achieved"
    ELSE Paced(float(cv), float(tv), start, end, now_date)

----------------------------------------------------------------------------
(* Values of the forms and of the table "kpis" *)

\* "" as left by a form without gender breakdown
EmptyText == [n |-> 0, tag |-> "empty"]

\* int(x) of a whole number
int(x) == x

\* the keys of PROJECT_PASSWORDS and one project the mapping does not know
ProjectNames == <<"P1", "P2", "P3">>
Projects == {ProjectNames[i] : i \in DOMAIN ProjectNames}

\* the projects whose records the store operations are called with
StoreProjects == {"P1", "P2"}

Str(v) == [tag |-> "str", v |-> v]
NonePassword == [tag |-> "none", v |-> ""]

PROJECT_PASSWORDS == [p \in {"P1", "P2"} |-> IF p = "P1" THEN Str("pw1") ELSE Str("pw2")]

\* dict.get(key): None for a missing key
PasswordsGet_default_empty(project_name) ==
    IF project_name \in DOMAIN PROJECT_PASSWORDS THEN PROJECT_PASSWORDS[project_name]
    ELSE Str("")
PasswordsGet(project_name) ==
    IF project_name \in DOMAIN PROJECT_PASSWORDS THEN PROJECT_PASSWORDS[project_name]
    ELSE NonePassword

\* what st.text_input can return for the password field
Passwords == {Str(""), Str("pw1"), Str("pw2")}

Sessions == {"s1", "s2"}

\* The dictionaries the forms hand to save_kpi_data / update_kpi_data.
\* Dates are day numbers standing for their "%Y-%m-%d" strings.
DataDict(project, kpi, wp, target, current, achievement, male, female, comments, start, end) ==
    ("Project" :> project) @@ ("KPI" :> kpi) @@ ("Work Package" :> wp)
    @@ ("Target" :> target) @@ ("Current Value" :> current)
    @@ ("Achievement Date" :> achievement)
    @@ ("Male Count" :> male) @@ ("Female Count" :> female)
    @@ ("Comments" :> comments) @@ ("Start Date" :> start) @@ ("End Date" :> end)

FormInputs(project) == {
    DataDict(project, "K1", "WP1", Num(10), Num(5), 1, EmptyText, EmptyText, "", 0, 3),
    DataDict(project, "K2", "WP2", Num(100), Num(95), 2, Num(2), Num(3), "note", 1, 2) }

----------------------------------------------------------------------------
(* The table "kpis" behind the Supabase client *)

\* insert: the table assigns id and created_at
TableInsert_upsert(table, payload, new_id, t) ==
    Append(SelectSeq(table, LAMBDA r : ~(r.project = payload.project /\ r.kpi = payload.kpi)),
           payload @@ [id |-> new_id, created_at |-> t])
TableInsert(table, payload, new_id, t) ==
    Append(table, payload @@ [id |-> new_id, created_at |-> t])

\* update(payload).eq("id", row_id).eq("project", project_name)
TableUpdate(table, payload, row_id, project_name) ==
    [i \in DOMAIN table |->
        IF table[i].id = row_id /\ table[i].project = project_name
        THEN payload @@ table[i]
        ELSE table[i]]

\* select("*").eq("project", project_name)
TableSelectEq_first_match(table, project_name) ==
    LET all == SelectSeq(table, LAMBDA r : r.project = project_name)
    IN IF all = <<>> THEN <<>> ELSE <<all[1]>>
TableSelectEq(table, project_name) == SelectSeq(table, LAMBDA r : r.project = project_name)

\* order("created_at", desc=False); rows of equal created_at keep table order
RECURSIVE InsertSorted(_, _)
InsertSorted(sorted, r) ==
    IF sorted = <<>> THEN <<r>>
    ELSE IF sorted[Len(sorted)].created_at <= r.created_at THEN Append(sorted, r)
    ELSE Append(InsertSorted(SubSeq(sorted, 1, Len(sorted) - 1), r), sorted[Len(sorted)])

RECURSIVE OrderByCreatedAt(_)
OrderByCreatedAt(rows) ==
    IF rows = <<>> THEN <<>>
    ELSE InsertSorted(OrderByCreatedAt(SubSeq(rows, 1, Len(rows) - 1)), rows[Len(rows)])

----------------------------------------------------------------------------
(* Data management functions *)

IntOrNone(x) == IF x \in {EmptyText, NoneValue} THEN NoneValue ELSE int(x)

\* the payload of save_kpi_data (lines 250-262)
InsertPayload_swapped_dates(project_name, data) ==
    [project |-> project_name,
     kpi |-> data["KPI"],
     work_package |-> data["Work Package"],
     target |-> Num(float(data["Target"])),
     current_value |-> Num(float(data["Current Value"])),
     achievement_date |-> data["Achievement Date"],
     male_count |-> IntOrNone(data["Male Count"]),
     female_count |-> IntOrNone(data["Female Count"]),
     comments |-> data["Comments"],
     start_date |-> data["End Date"],
     end_date |-> data["Start Date"]]
InsertPayload(project_name, data) ==
    [project |-> project_name,
     kpi |-> data["KPI"],
     work_package |-> data["Work Package"],
     target |-> Num(float(data["Target"])),
     current_value |-> Num(float(data["Current Value"])),
     achievement_date |-> data["Achievement Date"],
     male_count |-> IntOrNone(data["Male Count"]),
     female_count |-> IntOrNone(data["Female Count"]),
     comments |-> data["Comments"],
     start_date |-> data["Start Date"],
     end_date |-> data["End Date"]]

\* the payload of update_kpi_data (lines 304-314)
UpdatePayload_without_target(updated_data) ==
    [work_package |-> updated_data["Work Package"],
     current_value |-> Num(float(updated_data["Current Value"])),
     achievement_date |-> updated_data["Achievement Date"],
     male_count |-> IntOrNone(updated_data["Male Count"]),
     female_count |-> IntOrNone(updated_data["Female Count"]),
     comments |-> updated_data["Comments"],
     start_date |-> updated_data["Start Date"],
     end_date |-> updated_data["End Date"]]
UpdatePayload(updated_data) ==
    [work_package |-> updated_data["Work Package"],
     target |-> Num(float(updated_data["Target"])),
     current_value |-> Num(float(updated_data["Current Value"])),
     achievement_date |-> updated_data["Achievement Date"],
     male_count |-> IntOrNone(updated_data["Male Count"]),
     female_count |-> IntOrNone(updated_data["Female Count"]),
     comments |-> updated_data["Comments"],
     start_date |-> updated_data["Start Date"],
     end_date |-> updated_data["End Date"]]

\* one row under the old column names
RenameColumns(row) ==
    ("id" :> row.id) @@ ("Project" :> row.project) @@ ("KPI" :> row.kpi)
    @@ ("Work Package" :> row.work_package) @@ ("Target" :> row.target)
    @@ ("Current Value" :> row.current_value)
    @@ ("Achievement Date" :> row.achievement_date)
    @@ ("Male Count" :> row.male_count) @@ ("Female Count" :> row.female_count)
    @@ ("Comments" :> row.comments) @@ ("Start Date" :> row.start_date)
    @@ ("End Date" :> row.end_date) @@ ("Timestamp" :> row.created_at)

df_from_supabase_rows(rows) == [i \in DOMAIN rows |-> RenameColumns(rows[i])]

\* the frames and the list the loaders return when the request succeeds (ok)
\* and when it raises
load_kpi_data(table, project_name, ok) ==
    IF ok THEN df_from_supabase_rows(OrderByCreatedAt(TableSelectEq(table, project_name)))
    ELSE df_from_supabase_rows(<<>>)

load_all_projects_data(table, ok) ==
    IF ok THEN df_from_supabase_rows(OrderByCreatedAt(table))
    ELSE df_from_supabase_rows(<<>>)

get_available_projects(table, ok) ==
    IF ok THEN SelectSeq(ProjectNames, LAMBDA p : \E i \in DOMAIN table : table[i].project = p)
    ELSE <<>>

----------------------------------------------------------------------------
(* State *)

VARIABLES
    current_value, target_value, start_date, end_date, today, status,
        \* one call of calculate_kpi_status: its arguments, the wall-clock
        \* date it reads, and what it returned ("pending" before the call)
    kpis,                   \* the rows of table "kpis", in insertion order
    id_seq,                 \* the last id the table assigned
    now,                    \* the clock that fills created_at: one tick per insert
    authenticated_projects, \* st.session_state.authenticated_projects, per session
    call,                   \* the last call: function and arguments
    ret,                    \* what the last call returned
    requests,               \* the requests the last call sent to the table, each "ok" or "error"
    current_page,           \* st.session_state.current_page, per session
    selected_kpi,           \* st.session_state.selected_kpi, per session
    selected_project,       \* st.session_state.selected_project, per session
    edit_form,              \* the edit form a session's browser shows, if any
    event,                  \* the last run of main: page, session and the message it showed
    shown                   \* what the last run of the dashboard page rendered

classifyVars == <<current_value, target_value, start_date, end_date, today, status>>
storeVars == <<kpis, id_seq, now>>
navVars == <<current_page, selected_kpi, selected_project>>
uiVars == <<navVars, edit_form, event, shown>>
vars == <<classifyVars, storeVars, authenticated_projects, call, ret, requests, uiVars>>

Call(op, session, project, row_id, data, password) ==
    [op |-> op, session |-> session, project |-> project, row_id |-> row_id,
     data |-> data, password |-> password]

Returned(value, frame, projects) == [value |-> value, frame |-> frame, projects |-> projects]

InitClassifyIdle ==
    /\ current_value = NoneValue
    /\ target_value = NoneValue
    /\ start_date = NoneDate
    /\ end_date = NoneDate
    /\ today = 0
    /\ status = "pending"

\* None of selected_kpi and selected_project
NoneSelected == "None"

NoForm == [open |-> FALSE]

\* a run of main: the page, the button that was pressed ("none" for a run
\* without one), the values of the page's widgets and the message shown
Event(page, session, button, input, message) ==
    [session |-> session, page |-> page, button |-> button, input |-> input,
     message |-> message]

Shown(view, project, kpi, overview, pie, buttons, gauge) ==
    [project |-> project, kpi |-> kpi, view |-> view,
     overview |-> overview, pie |-> pie, buttons |-> buttons, gauge |-> gauge]

NothingShown == Shown("none", NoneSelected, NoneSelected, <<>>, <<>>, <<>>, "none")

\* lines 72-79 in the first run of every session, and what that session's
\* browser shows before any page has run
InitSessions ==
    /\ authenticated_projects = [s \in Sessions |-> {}]
    /\ current_page = [s \in Sessions |-> "main"]
    /\ selected_kpi = [s \in Sessions |-> NoneSelected]
    /\ selected_project = [s \in Sessions |-> NoneSelected]
    /\ edit_form = [s \in Sessions |-> NoForm]

InitCalls ==
    /\ call = Call("none", "s1", "P1", 0, <<>>, NonePassword)
    /\ ret = Returned(FALSE, <<>>, <<>>)
    /\ requests = <<>>
    /\ event = Event("none", "s1", "none", <<>>, "none")
    /\ shown = NothingShown

InitApp ==
    /\ kpis = <<>>
    /\ id_seq = 0
    /\ now = 0
    /\ InitSessions
    /\ InitCalls

appVars == <<storeVars, authenticated_projects, call, ret, requests, uiVars>>

----------------------------------------------------------------------------
(* The classifier applied to every input of the bounded domain *)

InitClassify ==
    /\ current_value \in Values
    /\ target_value \in Values
    /\ start_date \in Dates
    /\ end_date \in Dates
    /\ today \in Days
    /\ status = "pending"
    /\ InitApp

Classify ==
    /\ status = "pending"
    /\ status' = calculate_kpi_status(current_value, target_value, start_date, end_date, today)
    /\ UNCHANGED <<current_value, target_value, start_date, end_date, today>>
    /\ UNCHANGED appVars

NextClassify == Classify

SpecClassify == InitClassify /\ [][NextClassify]_vars

----------------------------------------------------------------------------
(* The operations of the application, called by any session *)

\* one request, answered or raising
Request(ok) == <<IF ok THEN "ok" ELSE "error">>

\* save_kpi_data: ok is FALSE when the client or the request raises;
\* the table stamps the row with its clock, which then moves on
Save_retries(s, project_name, data, ok) ==
    /\ Len(kpis) < MaxRows
    /\ kpis' = TableInsert(kpis, InsertPayload(project_name, data), id_seq + 1, now)
    /\ id_seq' = id_seq + 1
    /\ now' = now + 1
    /\ call' = Call("save", s, project_name, 0, data, NonePassword)
    /\ ret' = Returned(TRUE, <<>>, <<>>)
    /\ requests' = IF ok THEN Request(ok) ELSE Request(ok) \o Request(TRUE)
    /\ UNCHANGED authenticated_projects
Save(s, project_name, data, ok) ==
    /\ ok => Len(kpis) < MaxRows
    /\ kpis' = IF ok THEN TableInsert(kpis, InsertPayload(project_name, data), id_seq + 1, now)
               ELSE kpis
    /\ id_seq' = IF ok THEN id_seq + 1 ELSE id_seq
    /\ now' = IF ok THEN now + 1 ELSE now
    /\ call' = Call("save", s, project_name, 0, data, NonePassword)
    /\ ret' = Returned(ok, <<>>, <<>>)
    /\ requests' = Request(ok)
    /\ UNCHANGED authenticated_projects

\* update_kpi_data
Update(s, project_name, row_id, updated_data, ok) ==
    /\ kpis' = IF ok THEN TableUpdate(kpis, UpdatePayload(updated_data), row_id, project_name)
               ELSE kpis
    /\ call' = Call("update", s, project_name, row_id, updated_data, NonePassword)
    /\ ret' = Returned(ok, <<>>, <<>>)
    /\ requests' = Request(ok)
    /\ UNCHANGED <<id_seq, now, authenticated_projects>>

Load(s, project_name, ok) ==
    /\ call' = Call("load", s, project_name, 0, <<>>, NonePassword)
    /\ ret' = Returned(FALSE, load_kpi_data(kpis, project_name, ok), <<>>)
    /\ requests' = Request(ok)
    /\ UNCHANGED <<storeVars, authenticated_projects>>

LoadAll(s, ok) ==
    /\ call' = Call("load_all", s, "P1", 0, <<>>, NonePassword)
    /\ ret' = Returned(FALSE, load_all_projects_data(kpis, ok), <<>>)
    /\ requests' = Request(ok)
    /\ UNCHANGED <<storeVars, authenticated_projects>>

ListProjects(s, ok) ==
    /\ call' = Call("list_projects", s, "P1", 0, <<>>, NonePassword)
    /\ ret' = Returned(FALSE, <<>>, get_available_projects(kpis, ok))
    /\ requests' = Request(ok)
    /\ UNCHANGED <<storeVars, authenticated_projects>>

\* authenticate_project
Authenticate(s, project_name) ==
    /\ call' = Call("authenticate", s, project_name, 0, <<>>, NonePassword)
    /\ ret' = Returned(project_name \in authenticated_projects[s], <<>>, <<>>)
    /\ requests' = <<>>
    /\ UNCHANGED <<storeVars, authenticated_projects>>

\* login_project
PasswordMatches_any_known(project_name, password) ==
    \E p \in DOMAIN PROJECT_PASSWORDS : PROJECT_PASSWORDS[p] = password
PasswordMatches(project_name, password) == PasswordsGet(project_name) = password

Login_shared_set(s, project_name, password) ==
    /\ authenticated_projects' =
          IF PasswordMatches(project_name, password)
          THEN [t \in Sessions |-> authenticated_projects[t] \cup {project_name}]
          ELSE authenticated_projects
    /\ call' = Call("login", s, project_name, 0, <<>>, password)
    /\ ret' = Returned(PasswordMatches(project_name, password), <<>>, <<>>)
    /\ requests' = <<>>
    /\ UNCHANGED storeVars
Login(s, project_name, password) ==
    /\ authenticated_projects' =
          IF PasswordMatches(project_name, password)
          THEN [authenticated_projects EXCEPT ![s] = @ \cup {project_name}]
          ELSE authenticated_projects
    /\ call' = Call("login", s, project_name, 0, <<>>, password)
    /\ ret' = Returned(PasswordMatches(project_name, password), <<>>, <<>>)
    /\ requests' = <<>>
    /\ UNCHANGED storeVars

Next ==
    \/ \E p \in StoreProjects, ok \in BOOLEAN :
         \E data \in FormInputs(p) : Save("s1", p, data, ok) /\ UNCHANGED <<classifyVars, uiVars>>
    \/ \E p \in StoreProjects, row_id \in 1 .. MaxRows + 1, ok \in BOOLEAN :
         \E data \in FormInputs(p) : Update("s1", p, row_id, data, ok) /\ UNCHANGED <<classifyVars, uiVars>>
    \/ \E p \in StoreProjects, ok \in BOOLEAN : Load("s1", p, ok) /\ UNCHANGED <<classifyVars, uiVars>>
    \/ \E ok \in BOOLEAN : LoadAll("s1", ok) /\ UNCHANGED <<classifyVars, uiVars>>
    \/ \E ok \in BOOLEAN : ListProjects("s1", ok) /\ UNCHANGED <<classifyVars, uiVars>>

Init == InitClassifyIdle /\ InitApp

Spec == Init /\ [][Next]_vars

----------------------------------------------------------------------------
(* The authentication functions, called by two sessions *)

NextAuth ==
    \/ \E s \in Sessions, p \in Projects : Authenticate(s, p) /\ UNCHANGED <<classifyVars, uiVars>>
    \/ \E s \in Sessions, p \in Projects, pw \in Passwords : Login(s, p, pw) /\ UNCHANGED <<classifyVars, uiVars>>

SpecAuth == Init /\ [][NextAuth]_vars

----------------------------------------------------------------------------
(* The add and edit pages of main: one action per run of the script, for
   two sessions over one table *)

\* a record of a project that PROJECT_PASSWORDS does not (or no longer) name
LegacyRow ==
    [target |-> Num(10), project |-> "P3", kpi |-> "K1", comments |-> "",
     id |-> 1, created_at |-> 0, work_package |-> "WP1", current_value |-> Num(5),
     achievement_date |-> 1, male_count |-> NoneValue, female_count |-> NoneValue,
     start_date |-> 0, end_date |-> 3]

\* what the add form holds when Save is pressed: a complete form, or one
\* with a required field left empty
AddInputs(project) ==
    { DataDict(project, "K1", "WP1", Num(10), Num(5), 1, EmptyText, EmptyText, "", 0, 3),
      DataDict(project, "", "WP1", Num(10), Num(5), 1, EmptyText, EmptyText, "", 0, 3),
      DataDict(project, "K1", "", Num(10), Num(5), 1, EmptyText, EmptyText, "", 0, 3) }

\* `if kpi and work_package` (line 744)
RequiredFilled_kpi_only(data) == data["KPI"] # ""
RequiredFilled(data) == data["KPI"] # "" /\ data["Work Package"] # ""

authenticate_project(s, project_name) == project_name \in authenticated_projects[s]

InSeq(x, seq) == \E i \in DOMAIN seq : seq[i] = x

KpiNames == {"K1", "K2"}

\* pd.notna
notna(x) == x # NoneValue

\* the values the edit form's widgets are created with (lines 817-861)
Prefill(project, kpi_to_edit, selected_record) ==
    DataDict(project, kpi_to_edit,
             selected_record["Work Package"],
             Num(float(selected_record["Target"])),
             Num(float(selected_record["Current Value"])),
             selected_record["Achievement Date"],
             IF notna(selected_record["Male Count"]) /\ selected_record["Male Count"] # EmptyText
                 THEN int(selected_record["Male Count"]) ELSE Num(0),
             IF notna(selected_record["Female Count"]) /\ selected_record["Female Count"] # EmptyText
                 THEN int(selected_record["Female Count"]) ELSE Num(0),
             selected_record["Comments"],
             selected_record["Start Date"],
             selected_record["End Date"])

\* what a user types over the prefilled widgets before pressing Update
TargetRaised == ("Target" :> Num(20))
EditChanges == {
    <<>>,
    TargetRaised,
    ("Current Value" :> Num(8)) @@ ("Comments" :> "edited") }

Typed(widgets, changes) ==
    [f \in DOMAIN widgets |-> IF f \in DOMAIN changes THEN changes[f] ELSE widgets[f]]

Form(project, kpi, record_index, row_id, widgets, submitted) ==
    [open |-> TRUE, project |-> project, kpi |-> kpi, record_index |-> record_index,
     row_id |-> row_id, widgets |-> widgets, submitted |-> submitted]

\* df[df["KPI"] == kpi]
KpiRecords(df, kpi) == SelectSeq(df, LAMBDA r : r["KPI"] = kpi)

\* a browser opens a new session: lines 72-79 create its session state,
\* and the session has called nothing yet
NewSession(s) ==
    /\ authenticated_projects' = [authenticated_projects EXCEPT ![s] = {}]
    /\ current_page' = [current_page EXCEPT ![s] = "main"]
    /\ selected_kpi' = [selected_kpi EXCEPT ![s] = NoneSelected]
    /\ selected_project' = [selected_project EXCEPT ![s] = NoneSelected]
    /\ edit_form' = [edit_form EXCEPT ![s] = NoForm]
    /\ event' = Event("start", s, "none", <<>>, "none")
    /\ call' = Call("none", s, "P1", 0, <<>>, NonePassword)
    /\ ret' = Returned(FALSE, <<>>, <<>>)
    /\ requests' = <<>>
    /\ UNCHANGED <<storeVars, shown>>

\* the add page with a locked project and Login not pressed: the run stops
\* at line 719, before the form
AddGate(s, project) ==
    /\ ~authenticate_project(s, project)
    /\ Authenticate(s, project)
    /\ event' = Event("add", s, "none", <<>>, "password_required")
    /\ edit_form' = [edit_form EXCEPT ![s] = NoForm]
    /\ UNCHANGED <<navVars, shown>>

\* Login pressed on the add page (lines 713-718)
AddLogin(s, project, password) ==
    /\ ~authenticate_project(s, project)
    /\ Login(s, project, password)
    /\ event' = Event("add", s, "login", <<>>,
                      IF PasswordMatches(project, password) THEN "authenticated"
                      ELSE "invalid_password")
    /\ edit_form' = [edit_form EXCEPT ![s] = NoForm]
    /\ UNCHANGED <<navVars, shown>>

\* Save pressed with both required fields filled (lines 743-764)
AddSave_ungated(s, project, data, ok) ==
    /\ RequiredFilled(data)
    /\ Save(s, project, data, ok)
    /\ event' = Event("add", s, "save", data, IF ok THEN "saved" ELSE "save_failed")
    /\ edit_form' = [edit_form EXCEPT ![s] = NoForm]
    /\ UNCHANGED <<navVars, shown>>
AddSave(s, project, data, ok) ==
    /\ authenticate_project(s, project)
    /\ RequiredFilled(data)
    /\ Save(s, project, data, ok)
    /\ event' = Event("add", s, "save", data, IF ok THEN "saved" ELSE "save_failed")
    /\ edit_form' = [edit_form EXCEPT ![s] = NoForm]
    /\ UNCHANGED <<navVars, shown>>

\* Save pressed with a required field empty (lines 765-766): the last
\* function the run called is the gate's authenticate_project
AddIncomplete(s, project, data) ==
    /\ authenticate_project(s, project)
    /\ ~RequiredFilled(data)
    /\ Authenticate(s, project)
    /\ event' = Event("add", s, "save", data, "required_fields")
    /\ edit_form' = [edit_form EXCEPT ![s] = NoForm]
    /\ UNCHANGED <<navVars, shown>>

\* the edit page when the project list is empty or cannot be read (lines 772-775)
EditNoData(s, ok) ==
    /\ get_available_projects(kpis, ok) = <<>>
    /\ ListProjects(s, ok)
    /\ event' = Event("edit", s, "none", <<>>, "no_data")
    /\ edit_form' = [edit_form EXCEPT ![s] = NoForm]
    /\ UNCHANGED <<navVars, shown>>

\* the edit page with a locked project and Login not pressed: the run
\* stops at line 787
EditGate(s, project) ==
    /\ InSeq(project, get_available_projects(kpis, TRUE))
    /\ ~authenticate_project(s, project)
    /\ Authenticate(s, project)
    /\ event' = Event("edit", s, "none", <<>>, "password_required")
    /\ edit_form' = [edit_form EXCEPT ![s] = NoForm]
    /\ UNCHANGED <<navVars, shown>>

\* Login pressed on the edit page (lines 781-786)
EditLogin(s, project, password) ==
    /\ InSeq(project, get_available_projects(kpis, TRUE))
    /\ ~authenticate_project(s, project)
    /\ Login(s, project, password)
    /\ event' = Event("edit", s, "login", <<>>,
                      IF PasswordMatches(project, password) THEN "authenticated"
                      ELSE "invalid_password")
    /\ edit_form' = [edit_form EXCEPT ![s] = NoForm]
    /\ UNCHANGED <<navVars, shown>>

\* the edit page of an unlocked project whose records cannot be read (lines 791-794)
EditNoKpiData(s, project) ==
    /\ InSeq(project, get_available_projects(kpis, TRUE))
    /\ authenticate_project(s, project)
    /\ Load(s, project, FALSE)
    /\ event' = Event("edit", s, "none", <<>>, "no_kpi_data")
    /\ edit_form' = [edit_form EXCEPT ![s] = NoForm]
    /\ UNCHANGED <<navVars, shown>>

\* the edit page of an unlocked project: the user picks a KPI and a record,
\* and the form is created from the record (lines 791-861)
EditOpen(s, project, kpi_to_edit, record_index) ==
    LET df == load_kpi_data(kpis, project, TRUE)
        kpi_records == KpiRecords(df, kpi_to_edit)
    IN /\ InSeq(project, get_available_projects(kpis, TRUE))
       /\ authenticate_project(s, project)
       /\ record_index \in DOMAIN kpi_records
       /\ Load(s, project, TRUE)
       /\ edit_form' = [edit_form EXCEPT ![s] =
             Form(project, kpi_to_edit, record_index, int(kpi_records[record_index]["id"]),
                  Prefill(project, kpi_to_edit, kpi_records[record_index]), FALSE)]
       /\ event' = Event("edit", s, "none", <<>>, "form")
       /\ UNCHANGED <<navVars, shown>>

\* Update pressed on a form (lines 863-883): the run passes the gate
\* again, finds the record again, and sends what the browser's widgets
\* hold: the values the form was created with, overwritten by what the
\* user typed
PressUpdate(s, form, changes, ok) ==
    LET df == load_kpi_data(kpis, form.project, TRUE)
        kpi_records == KpiRecords(df, form.kpi)
        row_id == int(kpi_records[form.record_index]["id"])
        updated_data == Typed(form.widgets, changes)
    IN /\ InSeq(form.project, get_available_projects(kpis, TRUE))
       /\ authenticate_project(s, form.project)
       /\ form.record_index \in DOMAIN kpi_records
       /\ Update(s, form.project, row_id, updated_data, ok)
       /\ event' = Event("edit", s, "update", updated_data,
                         IF ok THEN "updated" ELSE "update_failed")

\* Update pressed on the form the session's browser shows; after a
\* successful update the rerun (line 881) creates the form from the
\* stored record, which now holds the submitted values
EditSubmit(s, changes, ok) ==
    /\ edit_form[s].open
    /\ PressUpdate(s, edit_form[s], changes, ok)
    /\ edit_form' = [edit_form EXCEPT ![s] =
          IF ok THEN [@ EXCEPT !.widgets = Typed(@, changes), !.submitted = TRUE] ELSE @]
    /\ UNCHANGED <<navVars, shown>>

\* the run that creates the form and the run of Update, taken as one step
\* of a session with no run of another session in between; the form is
\* not kept afterwards
EditUpdate(s, project, kpi_to_edit, record_index, changes, ok) ==
    LET df == load_kpi_data(kpis, project, TRUE)
        kpi_records == KpiRecords(df, kpi_to_edit)
    IN /\ record_index \in DOMAIN kpi_records
       /\ PressUpdate(s, Form(project, kpi_to_edit, record_index,
                              int(kpi_records[record_index]["id"]),
                              Prefill(project, kpi_to_edit, kpi_records[record_index]), FALSE),
                      changes, ok)
       /\ edit_form' = [edit_form EXCEPT ![s] = NoForm]
       /\ UNCHANGED <<navVars, shown>>

NextUI ==
    \/ \E s \in Sessions : NewSession(s) /\ UNCHANGED classifyVars
    \/ \E s \in Sessions, p \in DOMAIN PROJECT_PASSWORDS :
         AddGate(s, p) /\ UNCHANGED classifyVars
    \/ \E s \in Sessions, p \in DOMAIN PROJECT_PASSWORDS, pw \in Passwords :
         AddLogin(s, p, pw) /\ UNCHANGED classifyVars
    \/ \E s \in Sessions, p \in DOMAIN PROJECT_PASSWORDS, ok \in BOOLEAN :
         \E data \in AddInputs(p) : AddSave(s, p, data, ok) /\ UNCHANGED classifyVars
    \/ \E s \in Sessions, p \in DOMAIN PROJECT_PASSWORDS :
         \E data \in AddInputs(p) : AddIncomplete(s, p, data) /\ UNCHANGED classifyVars
    \/ \E s \in Sessions, ok \in BOOLEAN : EditNoData(s, ok) /\ UNCHANGED classifyVars
    \/ \E s \in Sessions, p \in Projects : EditGate(s, p) /\ UNCHANGED classifyVars
    \/ \E s \in Sessions, p \in Projects, pw \in Passwords :
         EditLogin(s, p, pw) /\ UNCHANGED classifyVars
    \/ \E s \in Sessions, p \in Projects : EditNoKpiData(s, p) /\ UNCHANGED classifyVars
    \/ \E s \in Sessions, p \in Projects, k \in KpiNames, i \in 1 .. MaxRows, ok \in BOOLEAN :
         EditUpdate(s, p, k, i, TargetRaised, ok) /\ UNCHANGED classifyVars

\* the sessions start over a table that holds one record of a project
\* without password
InitUI ==
    /\ InitClassifyIdle
    /\ kpis = <<LegacyRow>>
    /\ id_seq = Len(kpis)
    /\ now = Len(kpis)
    /\ InitSessions
    /\ InitCalls

SpecUI == InitUI /\ [][NextUI]_vars

----------------------------------------------------------------------------
(* The edit page used by two sessions on one record *)

\* the record the add form stored for project P1
SavedRow == TableInsert(<<>>, InsertPayload("P1", DataDict("P1", "K1", "WP1", Num(10), Num(5), 1, EmptyText, EmptyText, "", 0, 3)), 1, 0)[1]

NextEdit ==
    \/ \E s \in Sessions, p \in Projects : EditGate(s, p) /\ UNCHANGED classifyVars
    \/ \E s \in Sessions, p \in Projects, pw \in Passwords :
         EditLogin(s, p, pw) /\ UNCHANGED classifyVars
    \/ \E s \in Sessions, p \in Projects, k \in KpiNames, i \in 1 .. MaxRows :
         EditOpen(s, p, k, i) /\ UNCHANGED classifyVars
    \/ \E s \in Sessions, ok \in BOOLEAN :
         \E changes \in EditChanges : EditSubmit(s, changes, ok) /\ UNCHANGED classifyVars

InitEdit ==
    /\ InitClassifyIdle
    /\ kpis = <<SavedRow>>
    /\ id_seq = Len(kpis)
    /\ now = Len(kpis)
    /\ InitSessions
    /\ InitCalls

SpecEdit == InitEdit /\ [][NextEdit]_vars

----------------------------------------------------------------------------
(* The gender widgets of the add and edit forms, used by one session *)

\* the add form's checkbox and what the two number inputs hold when it is
\* ticked (lines 731-738); the inputs do not exist while it is not
GenderWidgets == {<<FALSE, 0, 0>>, <<TRUE, 0, 1>>, <<TRUE, 2, 3>>}

\* the dictionary the add page builds when Save is pressed (lines 731-757)
AddData_male_always(project, include_gender, male_typed, female_typed) ==
    LET male_count == IF include_gender THEN male_typed ELSE 0
        female_count == IF include_gender THEN female_typed ELSE 0
    IN DataDict(project, "K1", "WP1", Num(10), Num(5), 1,
                Num(male_count),
                IF include_gender THEN Num(female_count) ELSE EmptyText,
                "", 0, 3)
AddData(project, include_gender, male_typed, female_typed) ==
    LET male_count == IF include_gender THEN male_typed ELSE 0
        female_count == IF include_gender THEN female_typed ELSE 0
    IN DataDict(project, "K1", "WP1", Num(10), Num(5), 1,
                IF include_gender THEN Num(male_count) ELSE EmptyText,
                IF include_gender THEN Num(female_count) ELSE EmptyText,
                "", 0, 3)

\* what a user types over the edit form's widgets, the two counts included
GenderChanges == {
    <<>>,
    ("Male Count" :> Num(4)),
    ("Current Value" :> Num(8)) @@ ("Male Count" :> Num(1)) @@ ("Female Count" :> Num(0)) }

NextForms ==
    \/ \E pw \in Passwords : AddLogin("s1", "P1", pw) /\ UNCHANGED classifyVars
    \/ \E w \in GenderWidgets, ok \in BOOLEAN :
         AddSave("s1", "P1", AddData("P1", w[1], w[2], w[3]), ok) /\ UNCHANGED classifyVars
    \/ \E i \in 1 .. MaxRows, ok \in BOOLEAN :
         \E changes \in GenderChanges :
            EditUpdate("s1", "P1", "K1", i, changes, ok) /\ UNCHANGED classifyVars

InitForms == InitClassifyIdle /\ InitApp

SpecForms == InitForms /\ [][NextForms]_vars

----------------------------------------------------------------------------
(* The dashboard page of main, run by one session over a stored table *)

\* df.sort_values('Timestamp')
RECURSIVE InsertByTimestamp(_, _)
InsertByTimestamp(sorted, r) ==
    IF sorted = <<>> THEN <<r>>
    ELSE IF sorted[Len(sorted)]["Timestamp"] <= r["Timestamp"] THEN Append(sorted, r)
    ELSE Append(InsertByTimestamp(SubSeq(sorted, 1, Len(sorted) - 1), r), sorted[Len(sorted)])

RECURSIVE sort_values(_)
sort_values(df) ==
    IF df = <<>> THEN <<>>
    ELSE InsertByTimestamp(sort_values(SubSeq(df, 1, Len(df) - 1)), df[Len(df)])

\* df[df['Project'] == project_name]
ProjectData(df, project_name) == SelectSeq(df, LAMBDA r : r["Project"] = project_name)

\* df["KPI"].unique()
KpisOf(df) == {df[i]["KPI"] : i \in DOMAIN df}

\* .iloc[-1]
iloc_last(df) == df[Len(df)]

\* groupby('KPI').last() on a value column: the last value of the group
\* that is not null, null when the group has none
GroupLast(df, kpi, column) ==
    LET filled == SelectSeq(KpiRecords(df, kpi), LAMBDA r : notna(r[column]))
    IN IF filled = <<>> THEN NoneValue ELSE iloc_last(filled)[column]

\* groupby('KPI').last() on a date column; the forms always store a date,
\* so the column has no null to skip
GroupLastDate(df, kpi, column) == iloc_last(KpiRecords(df, kpi))[column]

\* pd.to_datetime(x).date()
to_date(x) == Date(x)

\* the Status column of create_kpi_overview_chart (lines 359-382), per KPI
create_kpi_overview_chart(df, project_name, d) ==
    LET project_data == sort_values(ProjectData(df, project_name))
    IN [k \in KpiNames |->
          IF k \in KpisOf(project_data)
          THEN calculate_kpi_status(GroupLast(project_data, k, "Current Value"),
                                    GroupLast(project_data, k, "Target"),
                                    to_date(GroupLastDate(project_data, k, "Start Date")),
                                    to_date(GroupLastDate(project_data, k, "End Date")), d)
          ELSE "none"]

\* the Status column of create_status_pie_chart (lines 449-465), per KPI
create_status_pie_chart(df, project_name, d) ==
    LET project_data == sort_values(ProjectData(df, project_name))
    IN [k \in KpiNames |->
          IF k \in KpisOf(project_data)
          THEN calculate_kpi_status(GroupLast(project_data, k, "Current Value"),
                                    GroupLast(project_data, k, "Target"),
                                    to_date(GroupLastDate(project_data, k, "Start Date")),
                                    to_date(GroupLastDate(project_data, k, "End Date")), d)
          ELSE "none"]

\* the status of the gauge of create_detailed_kpi_charts (lines 496-610),
\* "none" when the project has no record of the KPI and no chart is made
create_detailed_kpi_charts(df, project_name, kpi_name, d) ==
    LET kpi_data == sort_values(KpiRecords(ProjectData(df, project_name), kpi_name))
    IN IF kpi_data = <<>> THEN "none"
       ELSE LET latest_data == iloc_last(kpi_data)
            IN calculate_kpi_status(latest_data["Current Value"], latest_data["Target"],
                                    to_date(latest_data["Start Date"]),
                                    to_date(latest_data["End Date"]), d)

\* the status on the button of each KPI (lines 1009-1025)
KpiButtons_first_record(df, d) ==
    [k \in KpiNames |->
        IF k \in KpisOf(df)
        THEN LET kpi_data == KpiRecords(df, k)[1]
             IN calculate_kpi_status(kpi_data["Current Value"], kpi_data["Target"],
                                     to_date(kpi_data["Start Date"]),
                                     to_date(kpi_data["End Date"]), d)
        ELSE "none"]
KpiButtons(df, d) ==
    [k \in KpiNames |->
        IF k \in KpisOf(df)
        THEN LET kpi_data == iloc_last(KpiRecords(df, k))
             IN calculate_kpi_status(kpi_data["Current Value"], kpi_data["Target"],
                                     to_date(kpi_data["Start Date"]),
                                     to_date(kpi_data["End Date"]), d)
        ELSE "none"]

\* the detail view (lines 902-960) and the overview (lines 963-1042)
DetailView(df, project, kpi, d) ==
    Shown("detail", project, kpi, <<>>, <<>>, <<>>,
          create_detailed_kpi_charts(df, project, kpi, d))

OverviewView(df, project, d) ==
    Shown("overview", project, NoneSelected,
          create_kpi_overview_chart(df, project, d),
          create_status_pie_chart(df, project, d),
          KpiButtons(df, d), "none")

\* the test of line 901
InDetail(s) ==
    current_page[s] = "kpi_detail" /\ selected_kpi[s] # NoneSelected /\ selected_kpi[s] # ""

\* the dashboard when the project list is empty or cannot be read (lines 889-892)
DashNoData(s, ok) ==
    /\ get_available_projects(kpis, ok) = <<>>
    /\ ListProjects(s, ok)
    /\ shown' = NothingShown
    /\ event' = Event("dashboard", s, "none", <<>>, "no_data")
    /\ edit_form' = [edit_form EXCEPT ![s] = NoForm]
    /\ UNCHANGED <<navVars, classifyVars>>

\* the dashboard of a project whose records cannot be read (lines 896-899)
DashNoProjectData(s, project) ==
    /\ InSeq(project, get_available_projects(kpis, TRUE))
    /\ Load(s, project, FALSE)
    /\ shown' = NothingShown
    /\ event' = Event("dashboard", s, "none", project, "no_project_data")
    /\ edit_form' = [edit_form EXCEPT ![s] = NoForm]
    /\ UNCHANGED <<navVars, classifyVars>>

\* a run of the dashboard with no button pressed, for the project the
\* selector holds (lines 889-1032); date.today() is the day of the session
DashView(s, project) ==
    LET df == load_kpi_data(kpis, project, TRUE)
    IN /\ InSeq(project, get_available_projects(kpis, TRUE))
       /\ Load(s, project, TRUE)
       /\ IF InDetail(s)
          THEN /\ shown' = DetailView(df, project, selected_kpi[s], today)
               /\ UNCHANGED navVars
          ELSE /\ current_page' = [current_page EXCEPT ![s] = "main"]
               /\ shown' = OverviewView(df, project, today)
               /\ UNCHANGED <<selected_kpi, selected_project>>
       /\ event' = Event("dashboard", s, "none", project,
                         IF InDetail(s) THEN "detail" ELSE "overview")
       /\ edit_form' = [edit_form EXCEPT ![s] = NoForm]
       /\ UNCHANGED classifyVars

\* the button of a KPI pressed on the overview (lines 1034-1042); the
\* rerun renders the detail view
DashSelect(s, project, kpi_name) ==
    LET df == load_kpi_data(kpis, project, TRUE)
    IN /\ InSeq(project, get_available_projects(kpis, TRUE))
       /\ ~InDetail(s)
       /\ kpi_name \in KpisOf(df)
       /\ Load(s, project, TRUE)
       /\ current_page' = [current_page EXCEPT ![s] = "kpi_detail"]
       /\ selected_kpi' = [selected_kpi EXCEPT ![s] = kpi_name]
       /\ selected_project' = [selected_project EXCEPT ![s] = project]
       /\ shown' = DetailView(df, project, kpi_name, today)
       /\ event' = Event("dashboard", s, "kpi", project, "detail")
       /\ edit_form' = [edit_form EXCEPT ![s] = NoForm]
       /\ UNCHANGED classifyVars

\* Back pressed in the detail view (lines 904-907); the rerun renders the
\* overview
DashBack_keeps_selected_kpi(s, project) ==
    LET df == load_kpi_data(kpis, project, TRUE)
    IN /\ InSeq(project, get_available_projects(kpis, TRUE))
       /\ InDetail(s)
       /\ Load(s, project, TRUE)
       /\ current_page' = [current_page EXCEPT ![s] = "main"]
       /\ shown' = OverviewView(df, project, today)
       /\ event' = Event("dashboard", s, "back", project, "overview")
       /\ edit_form' = [edit_form EXCEPT ![s] = NoForm]
       /\ UNCHANGED <<selected_kpi, selected_project>>
       /\ UNCHANGED classifyVars
DashBack(s, project) ==
    LET df == load_kpi_data(kpis, project, TRUE)
    IN /\ InSeq(project, get_available_projects(kpis, TRUE))
       /\ InDetail(s)
       /\ Load(s, project, TRUE)
       /\ current_page' = [current_page EXCEPT ![s] = "main"]
       /\ selected_kpi' = [selected_kpi EXCEPT ![s] = NoneSelected]
       /\ shown' = OverviewView(df, project, today)
       /\ event' = Event("dashboard", s, "back", project, "overview")
       /\ edit_form' = [edit_form EXCEPT ![s] = NoForm]
       /\ UNCHANGED selected_project
       /\ UNCHANGED classifyVars

\* the tables that n saves, each followed by an update of the new record,
\* leave: created_at is the number of the insert
RECURSIVE TablesOfSize(_)
TablesOfSize(n) ==
    IF n = 0 THEN {<<>>}
    ELSE UNION { UNION { { TableUpdate(TableInsert(t, InsertPayload(p, saved), n, n - 1),
                                       UpdatePayload(updated), n, p)
                           : saved \in FormInputs(p), updated \in FormInputs(p) }
                         : p \in StoreProjects }
                 : t \in TablesOfSize(n - 1) }

StoredTables == UNION {TablesOfSize(n) : n \in 0 .. MaxRows}

NextDash ==
    \/ \E ok \in BOOLEAN : DashNoData("s1", ok)
    \/ \E p \in Projects : DashNoProjectData("s1", p)
    \/ \E p \in Projects : DashView("s1", p)
    \/ \E p \in Projects, k \in KpiNames : DashSelect("s1", p, k)
    \/ \E p \in Projects : DashBack("s1", p)

\* the session opens the dashboard on one of the days, over one of the tables
InitDash ==
    /\ current_value = NoneValue
    /\ target_value = NoneValue
    /\ start_date = NoneDate
    /\ end_date = NoneDate
    /\ today \in 1 .. MaxDay
    /\ status = "pending"
    /\ kpis \in StoredTables
    /\ id_seq = Len(kpis)
    /\ now = Len(kpis)
    /\ InitSessions
    /\ InitCalls

SpecDash == InitDash /\ [][NextDash]_vars

----------------------------------------------------------------------------
(* Claims about calculate_kpi_status, checked under SpecClassify *)

Called == status # "pending"
BothNumeric == Coercible(current_value) /\ Coercible(target_value)
ReachedTarget == BothNumeric /\ float(target_value) > 0 /\ float(current_value) >= float(target_value)
HasDates == start_date.tag = "date" /\ end_date.tag = "date"
elapsed == today - start_date.d
total == end_date.d - start_date.d

\* C1: whenever current_value >= target_value > 0 the classifier returns
\* "Achieved", whatever the dates are (missing, not begun, degenerate).
C1_AchievedRegardlessOfDates ==
    (Called /\ ReachedTarget) => status = "Achieved"

C1_Witness ==
    /\ Called /\ ReachedTarget /\ HasDates
    /\ today < start_date.d /\ end_date.d < start_date.d
    /\ status = "Achieved"

\* C2: a target that is <= 0 or cannot be coerced to a number gives
\* "Not Started" for every current value and all dates, and no error.
C2_BadTargetNotStarted ==
    (Called /\ (~Coercible(target_value) \/ float(target_value) <= 0))
        => status = "Not Started"

C2_Witness ==
    /\ Called /\ BothNumeric
    /\ float(target_value) = 0 /\ float(current_value) > 0
    /\ start_date.tag = "none"
    /\ status = "Not Started"

\* C3 as stated: a window that has not begun (today <= start_date) or is
\* degenerate (end_date <= start_date) always gives "Not Started".
C3_Original ==
    (Called /\ HasDates /\ (elapsed <= 0 \/ (total <= 0 /\ elapsed > 0)))
        => status = "Not Started"

\* C3 amended: such a window gives "Not Started" unless
\* current_value >= target_value > 0, and then it gives "Achieved".
C3_NotStartedUnlessAchieved ==
    (Called /\ HasDates /\ (elapsed <= 0 \/ (total <= 0 /\ elapsed > 0)))
        => status = (IF ReachedTarget THEN "Achieved" ELSE "Not Started")

C3_Witness ==
    /\ Called /\ HasDates /\ BothNumeric
    /\ float(target_value) > 0 /\ float(current_value) < float(target_value)
    /\ total <= 0 /\ elapsed > 0
    /\ status = "Not Started"

\* C4: with 0 < target, current < target and an open window, the label is
\* decided by ratio = current / ((elapsed / total) * target): "On Track" iff
\* ratio >= 0.9, "At Risk" iff 0.7 <= ratio < 0.9, "Delayed" iff ratio < 0.7;
\* 95 of 100 at 10/20 days is "On Track", 50 of 100 at 18/20 is "Delayed".
C4_Pre ==
    /\ Called /\ BothNumeric /\ HasDates
    /\ float(target_value) > 0 /\ float(current_value) < float(target_value)
    /\ elapsed > 0 /\ total > 0

StatusRank(s) ==
    CASE s = "Delayed" -> 0
      [] s = "At Risk" -> 1
      [] s = "On Track" -> 2
      [] s = "Achieved" -> 3
      [] OTHER -> -1

C5_Pre ==
    /\ Called /\ BothNumeric /\ HasDates
    /\ float(target_value) > 0 /\ elapsed > 0 /\ total > 0

C5_MonotoneInCurrentValue ==
    C5_Pre =>
        /\ StatusRank(status) >= 0
        /\ \A n \in Numbers :
              LET other == calculate_kpi_status(Num(n), target_value, start_date, end_date, today)
              IN /\ StatusRank(other) >= 0
                 /\ float(current_value) <= n => StatusRank(status) <= StatusRank(other)
                 /\ n <= float(current_value) => StatusRank(other) <= StatusRank(status)

C5_Witness ==
    /\ C5_Pre
    /\ status = "At Risk"
    /\ \E n \in Numbers :
          /\ n > float(current_value)
          /\ calculate_kpi_status(Num(n), target_value, start_date, end_date, today) = "On Track"
    /\ \E n \in Numbers :
          /\ n < float(current_value)
          /\ calculate_kpi_status(Num(n), target_value, start_date, end_date, today) = "Delayed"

----------------------------------------------------------------------------
(* Claims about the store operations, checked under Spec *)

\* a step that is a call of the function op
StepOf(op) ==
    /\ call'.op = op
    /\ call' # call \/ ret' # ret \/ kpis' # kpis \/ authenticated_projects' # authenticated_projects

Matches(row, c) == row.id = c.row_id /\ row.project = c.project

\* a supplied count as a column holds it: null for an empty one
Stored(x) == IF x = EmptyText THEN NoneValue ELSE x

\* C6: a successful update rewrites on the record matching id the supplied
\* fields and nothing else, leaves every other record as it was, and sets
\* the record's Timestamp (created_at) to the time of the update.
C6_UpdateFrameAndTimestamp ==
    [][(StepOf("update") /\ ret'.value) =>
          /\ DOMAIN kpis' = DOMAIN kpis
          /\ \A i \in DOMAIN kpis :
                IF Matches(kpis[i], call')
                THEN /\ kpis'[i].id = kpis[i].id
                     /\ kpis'[i].project = kpis[i].project
                     /\ kpis'[i].kpi = kpis[i].kpi
                     /\ kpis'[i].work_package = call'.data["Work Package"]
                     /\ kpis'[i].target = call'.data["Target"]
                     /\ kpis'[i].current_value = call'.data["Current Value"]
                     /\ kpis'[i].achievement_date = call'.data["Achievement Date"]
                     /\ kpis'[i].male_count = Stored(call'.data["Male Count"])
                     /\ kpis'[i].female_count = Stored(call'.data["Female Count"])
                     /\ kpis'[i].comments = call'.data["Comments"]
                     /\ kpis'[i].start_date = call'.data["Start Date"]
                     /\ kpis'[i].end_date = call'.data["End Date"]
                     /\ kpis'[i].created_at = now'
                ELSE kpis'[i] = kpis[i]]_vars

\* C7: an update whose id names no record, or a record of another project,
\* returns False and leaves the store unchanged.
C7_UpdateOfMissingRecordFails ==
    [][(StepOf("update") /\ ~(\E i \in DOMAIN kpis : Matches(kpis[i], call'))) =>
          /\ ret'.value = FALSE
          /\ kpis' = kpis]_vars

RoundTripFields ==
    {"Project", "KPI", "Work Package", "Target", "Current Value", "Achievement Date",
     "Comments", "Start Date", "End Date"}
GenderFields == {"Male Count", "Female Count"}

Reloaded == load_kpi_data(kpis, call.project, TRUE)

\* C8 as stated: after a successful save, the loaded frame of the project
\* holds a record equal to the saved one in every field but id and Timestamp,
\* also when the gender counts were left empty.
C8_Original ==
    (call.op = "save" /\ ret.value) =>
        \E i \in DOMAIN Reloaded :
            /\ Reloaded[i]["id"] = id_seq
            /\ \A f \in RoundTripFields \cup GenderFields : Reloaded[i][f] = call.data[f]

\* C8 amended: the record is equal in every field but id and Timestamp,
\* except that a gender count left empty ("") is loaded back as null.
C8_RoundTripEmptyCountsAsNull ==
    (call.op = "save" /\ ret.value) =>
        \E i \in DOMAIN Reloaded :
            /\ Reloaded[i]["id"] = id_seq
            /\ \A f \in RoundTripFields : Reloaded[i][f] = call.data[f]
            /\ \A f \in GenderFields :
                  Reloaded[i][f] = (IF call.data[f] = EmptyText THEN NoneValue ELSE call.data[f])

C8_Witness ==
    /\ call.op = "save" /\ ret.value
    /\ Len(kpis) = MaxRows
    /\ call.data["Male Count"] = EmptyText
    /\ \E i \in DOMAIN Reloaded :
          Reloaded[i]["id"] = id_seq /\ Reloaded[i]["Male Count"] = NoneValue

\* C9: no operation removes a record: every id of the table is still
\* there after every step, with the same Project and KPI name.
C9_RecordsNeverRemoved ==
    [][\A i \in DOMAIN kpis :
          \E j \in DOMAIN kpis' :
             /\ kpis'[j].id = kpis[i].id
             /\ kpis'[j].project = kpis[i].project
             /\ kpis'[j].kpi = kpis[i].kpi]_vars

C9_Witness ==
    /\ call.op = "update" /\ ret.value
    /\ Len(kpis) = MaxRows
    /\ \E i \in DOMAIN kpis :
          /\ Matches(kpis[i], call)
          /\ kpis[i].work_package = call.data["Work Package"]
          /\ kpis[i].kpi # call.data["KPI"]

StoreOps == {"save", "update", "load", "load_all", "list_projects"}

RequestFailed == \E i \in DOMAIN requests : requests[i] = "error"

\* C13: when the request to the store raises, each store operation has sent
\* that one request only, returns to its caller with the failure value
\* (False from save and update, an empty frame or list from the loaders),
\* and a failed save or update leaves the table as it was.
C13_FailureIsReturnedNotRetried ==
    /\ [](RequestFailed =>
            /\ call.op \in StoreOps
            /\ Len(requests) = 1
            /\ call.op \in {"save", "update"} => ret.value = FALSE
            /\ call.op \in {"load", "load_all"} => ret.frame = <<>>
            /\ call.op = "list_projects" => ret.projects = <<>>)
    /\ [][(\E i \in DOMAIN requests' : requests'[i] = "error") => kpis' = kpis]_vars

C13_Witness ==
    /\ RequestFailed
    /\ call.op = "update" /\ ret.value = FALSE
    /\ \E i \in DOMAIN kpis :
          /\ Matches(kpis[i], call)
          /\ kpis[i].work_package # call.data["Work Package"]

RowsOf(project) == {i \in DOMAIN kpis : kpis[i].project = project}

\* the frame holds the records idx of the table, each one once, and no other
HoldsExactly(frame, idx) ==
    /\ Len(frame) = Cardinality(idx)
    /\ \A i \in idx : \E j \in DOMAIN frame : frame[j] = RenameColumns(kpis[i])
    /\ \A j \in DOMAIN frame : \E i \in idx : frame[j] = RenameColumns(kpis[i])

\* C16: a load that succeeds returns exactly the records of the asked
\* project, a load of all projects returns the records of every project,
\* and the project list names each project that has a record exactly once
\* and no other project.
C16_LoadersReturnStoredRecords ==
    (call.op \in StoreOps /\ requests = Request(TRUE)) =>
        /\ call.op = "load" => HoldsExactly(ret.frame, RowsOf(call.project))
        /\ call.op = "load_all" => HoldsExactly(ret.frame, DOMAIN kpis)
        /\ call.op = "list_projects" =>
              /\ \A p \in Projects :
                    Cardinality({j \in DOMAIN ret.projects : ret.projects[j] = p})
                        = (IF RowsOf(p) # {} THEN 1 ELSE 0)
              /\ \A j \in DOMAIN ret.projects : ret.projects[j] \in Projects

C16_Witness ==
    /\ call.op = "load" /\ requests = Request(TRUE)
    /\ Len(kpis) = MaxRows
    /\ Len(ret.frame) = MaxRows
    /\ \A j \in DOMAIN ret.frame : ret.frame[j]["Project"] = call.project

----------------------------------------------------------------------------
(* Claims about authentication, checked under SpecAuth *)

Configured(project, password) ==
    project \in DOMAIN PROJECT_PASSWORDS /\ PROJECT_PASSWORDS[project] = password

\* C10: login_project returns True and adds the project to the session's
\* unlocked set exactly when the password is the configured one of that
\* project, and otherwise returns False and changes nothing;
\* authenticate_project tells whether the project is in the set; no step
\* takes a project out of a session's set.
C10_LoginExactlyOnConfiguredPassword ==
    /\ [][StepOf("login") =>
            /\ ret'.value = Configured(call'.project, call'.password)
            /\ authenticated_projects' =
                  IF Configured(call'.project, call'.password)
                  THEN [authenticated_projects EXCEPT ![call'.session] = @ \cup {call'.project}]
                  ELSE authenticated_projects]_vars
    /\ [][StepOf("authenticate") =>
            /\ ret'.value = (call'.project \in authenticated_projects[call'.session])
            /\ authenticated_projects' = authenticated_projects]_vars
    /\ [][\A s \in Sessions : authenticated_projects[s] \subseteq authenticated_projects'[s]]_vars

C10_Witness ==
    /\ call.op = "authenticate" /\ call.session = "s1" /\ call.project = "P1" /\ ret.value
    /\ authenticated_projects["s1"] = {"P1"}
    /\ authenticated_projects["s2"] = {"P2"}

----------------------------------------------------------------------------
(* Claims about the add and edit pages, checked under SpecUI and SpecEdit *)

\* C11: a call of save_kpi_data or update_kpi_data for a project is made
\* by a session only while the project is in that session's unlocked set,
\* and a project enters a session's set only by a login_project call of
\* that session with the configured password that returns True; a run that
\* finds the project locked stops at the password prompt and writes nothing.
C11_WritesOnlyAfterLogin ==
    /\ [][(StepOf("save") \/ StepOf("update")) =>
            call'.project \in authenticated_projects[call'.session]]_vars
    /\ [][\A s \in Sessions : \A p \in authenticated_projects'[s] \ authenticated_projects[s] :
            /\ call'.op = "login" /\ call'.session = s /\ call'.project = p
            /\ Configured(p, call'.password)
            /\ ret'.value]_vars
    /\ [][event'.message = "password_required" =>
            /\ call'.project \notin authenticated_projects[event'.session]
            /\ call'.op = "authenticate"
            /\ kpis' = kpis]_vars

C11_Witness ==
    /\ call.op = "update" /\ call.session = "s2" /\ ret.value
    /\ call.project \in authenticated_projects["s2"]
    /\ call.project \notin authenticated_projects["s1"]
    /\ \E i \in DOMAIN kpis : Matches(kpis[i], call) /\ kpis[i].target = Num(20)

\* C12: a login changes the unlocked set of the session that made it and
\* of no other session, so authenticate_project stays False elsewhere, and
\* a new session starts with an empty unlocked set whatever the other
\* sessions have unlocked.
C12_UnlockedSetPerSession ==
    /\ [][StepOf("login") =>
            \A s \in Sessions \ {call'.session} :
                authenticated_projects'[s] = authenticated_projects[s]]_vars
    /\ [][StepOf("authenticate") =>
            ret'.value = (call'.project \in authenticated_projects[call'.session])]_vars
    /\ [][event'.page = "start" =>
            /\ authenticated_projects'[event'.session] = {}
            /\ \A s \in Sessions \ {event'.session} :
                  authenticated_projects'[s] = authenticated_projects[s]]_vars

C12_Witness ==
    /\ call.op = "authenticate" /\ call.session = "s2" /\ call.project = "P1"
    /\ ret.value = FALSE
    /\ "P1" \in authenticated_projects["s1"]
    /\ authenticated_projects["s2"] = {"P2"}

PayloadFields ==
    {"Work Package", "Target", "Current Value", "Achievement Date", "Male Count",
     "Female Count", "Comments", "Start Date", "End Date"}

\* C14: when two sessions have the form of one record open and submit in
\* any order, each update whose request is answered returns True, also
\* when the record has changed since the form was created, and leaves in
\* the record every field of its own payload: the record equals the
\* payload of the update applied last.
C14_LastWriteWins ==
    [][(StepOf("update") /\ requests' = Request(TRUE)) =>
          /\ ret'.value
          /\ \E i \in DOMAIN kpis : Matches(kpis[i], call')
          /\ \A i \in DOMAIN kpis :
                IF Matches(kpis[i], call')
                THEN \A f \in PayloadFields :
                        RenameColumns(kpis'[i])[f] =
                            (IF f \in GenderFields THEN Stored(call'.data[f]) ELSE call'.data[f])
                ELSE kpis'[i] = kpis[i]]_vars

C14_Witness ==
    /\ edit_form["s1"].open /\ edit_form["s1"].submitted
    /\ edit_form["s2"].open /\ edit_form["s2"].submitted
    /\ edit_form["s1"].row_id = edit_form["s2"].row_id
    /\ edit_form["s1"].widgets["Target"] = Num(20)
    /\ edit_form["s2"].widgets["Target"] = Num(10)
    /\ call.op = "update" /\ call.session = "s2" /\ ret.value
    /\ call.data = edit_form["s2"].widgets
    /\ \E i \in DOMAIN kpis :
          /\ Matches(kpis[i], call)
          /\ kpis[i].target = Num(10) /\ kpis[i].current_value = Num(8)

\* C15: a run of the add page with Save pressed calls save_kpi_data with
\* the form's values when KPI name and Work Package are both non-empty,
\* and otherwise calls no save, leaves the table as it was and shows the
\* warning; save_kpi_data is never called with an empty required field.
C15_SaveNeedsRequiredFields ==
    /\ [][(event'.page = "add" /\ event'.button = "save") =>
            IF event'.input["KPI"] # "" /\ event'.input["Work Package"] # ""
            THEN /\ call'.op = "save"
                 /\ call'.data = event'.input
                 /\ call'.project = event'.input["Project"]
                 /\ event'.message \in {"saved", "save_failed"}
            ELSE /\ call'.op # "save"
                 /\ kpis' = kpis
                 /\ event'.message = "required_fields"]_vars
    /\ [][StepOf("save") =>
            call'.data["KPI"] # "" /\ call'.data["Work Package"] # ""]_vars

C15_Witness ==
    /\ event.page = "add" /\ event.button = "save"
    /\ event.message = "required_fields"
    /\ event.input["KPI"] # "" /\ event.input["Work Package"] = ""
    /\ call.op = "authenticate" /\ ret.value
    /\ Len(kpis) < MaxRows

Unconfigured(project) == project \notin DOMAIN PROJECT_PASSWORDS

\* C18: for a project without entry in PROJECT_PASSWORDS, login_project
\* returns False for every password a text input can hold and unlocks
\* nothing; no session ever has such a project in its unlocked set, and
\* no step changes a record of such a project.
C18_UnconfiguredProjectStaysLocked ==
    /\ [][(StepOf("login") /\ Unconfigured(call'.project)) =>
            /\ ret'.value = FALSE
            /\ authenticated_projects' = authenticated_projects]_vars
    /\ [](\A s \in Sessions : \A p \in authenticated_projects[s] : ~Unconfigured(p))
    /\ [][\A i \in DOMAIN kpis :
            Unconfigured(kpis[i].project) => (i \in DOMAIN kpis' /\ kpis'[i] = kpis[i])]_vars

C18_Witness ==
    /\ call.op = "login" /\ call.project = "P3" /\ call.password = Str("")
    /\ ret.value = FALSE
    /\ event.page = "edit" /\ event.message = "invalid_password"
    /\ kpis[1] = LegacyRow
    /\ authenticated_projects[call.session] # {}

----------------------------------------------------------------------------
(* Claims about the dashboard, checked under SpecDash *)

HasRecords(project, kpi) ==
    \E i \in DOMAIN kpis : kpis[i].project = project /\ kpis[i].kpi = kpi

\* the record with the latest Timestamp of a project and KPI
Latest(project, kpi) ==
    CHOOSE i \in DOMAIN kpis :
        /\ kpis[i].project = project /\ kpis[i].kpi = kpi
        /\ \A j \in DOMAIN kpis :
              (kpis[j].project = project /\ kpis[j].kpi = kpi)
                  => kpis[j].created_at <= kpis[i].created_at

StatusOfRecord(r) ==
    calculate_kpi_status(r.current_value, r.target, Date(r.start_date), Date(r.end_date), today)

\* C17: for every KPI of the project on display, the overview chart, the
\* status pie chart and the KPI's button show calculate_kpi_status of the
\* record with the latest Timestamp of that project and KPI, and so does
\* the gauge of the detail view for the KPI it shows.
C17_AllPathsClassifyLatestRecord ==
    /\ shown.view = "overview" =>
          \A k \in KpiNames :
              IF HasRecords(shown.project, k)
              THEN /\ shown.overview[k] = StatusOfRecord(kpis[Latest(shown.project, k)])
                   /\ shown.pie[k] = StatusOfRecord(kpis[Latest(shown.project, k)])
                   /\ shown.buttons[k] = StatusOfRecord(kpis[Latest(shown.project, k)])
              ELSE /\ shown.overview[k] = "none"
                   /\ shown.pie[k] = "none"
                   /\ shown.buttons[k] = "none"
    /\ shown.view = "detail" =>
          shown.gauge = (IF HasRecords(shown.project, shown.kpi)
                         THEN StatusOfRecord(kpis[Latest(shown.project, shown.kpi)])
                         ELSE "none")

C17_Witness ==
    /\ shown.view = "overview"
    /\ \E k \in KpiNames : \E i, j \in DOMAIN kpis :
          /\ HasRecords(shown.project, k)
          /\ i = Latest(shown.project, k)
          /\ kpis[j].project = shown.project /\ kpis[j].kpi = k
          /\ StatusOfRecord(kpis[j]) # StatusOfRecord(kpis[i])
          /\ shown.buttons[k] = StatusOfRecord(kpis[i])
          /\ shown.overview[k] = StatusOfRecord(kpis[i])

\* C19: in every session current_page is 'main' or 'kpi_detail', and
\* while it is 'kpi_detail' selected_kpi is not None; a run in which Back
\* is pressed leaves current_page = 'main' and selected_kpi = None.
C19_NavigationState ==
    /\ [](\A s \in Sessions :
            /\ current_page[s] \in {"main", "kpi_detail"}
            /\ current_page[s] = "kpi_detail" => selected_kpi[s] # NoneSelected)
    /\ [][event'.button = "back" =>
            /\ current_page'[event'.session] = "main"
            /\ selected_kpi'[event'.session] = NoneSelected]_vars

C19_Witness ==
    /\ event.button = "back"
    /\ current_page["s1"] = "main"
    /\ selected_kpi["s1"] = NoneSelected
    /\ selected_project["s1"] # NoneSelected
    /\ shown.view = "overview"

\* C20: whenever the detail view is rendered, the project of the
\* dashboard's selector is the selected_project recorded when the KPI
\* was clicked.
C20_DetailViewOfSelectedProject ==
    shown.view = "detail" => shown.project = selected_project[event.session]

----------------------------------------------------------------------------
(* Claims about the gender counts, checked under SpecForms *)

IsNull(x) == x = NoneValue
IsInteger(x) == x.tag = "num" /\ x.n \in Int

WithoutGender(data) == data["Male Count"] = EmptyText \/ data["Female Count"] = EmptyText

\* C21: after any sequence of saves and updates made through the forms,
\* every stored record has male_count null exactly when female_count is
\* null; a save without gender breakdown stores both counts as null, a
\* save with it stores both as integers, and an update stores both counts
\* of the record it rewrites as integers.
C21_GenderCountsPaired ==
    /\ [](\A i \in DOMAIN kpis : IsNull(kpis[i].male_count) <=> IsNull(kpis[i].female_count))
    /\ [][(StepOf("save") /\ ret'.value) =>
            /\ Len(kpis') = Len(kpis) + 1
            /\ LET r == kpis'[Len(kpis')]
               IN IF WithoutGender(call'.data)
                  THEN IsNull(r.male_count) /\ IsNull(r.female_count)
                  ELSE IsInteger(r.male_count) /\ IsInteger(r.female_count)]_vars
    /\ [][(StepOf("update") /\ requests' = Request(TRUE)) =>
            /\ \E i \in DOMAIN kpis : Matches(kpis[i], call')
            /\ \A i \in DOMAIN kpis' :
                  Matches(kpis'[i], call') =>
                      IsInteger(kpis'[i].male_count) /\ IsInteger(kpis'[i].female_count)]_vars

\* a record saved without gender breakdown was updated with nothing typed,
\* which turned its null counts into 0 and 0 (no add form stores 0 and 0),
\* next to a record saved with the breakdown
C21_Witness ==
    /\ Len(kpis) = 2
    /\ event.button = "update" /\ event.message = "updated"
    /\ call.op = "update" /\ ret.value
    /\ kpis[1].male_count = Num(0) /\ kpis[1].female_count = Num(0)
    /\ kpis[1].target = Num(10) /\ kpis[1].current_value = Num(5)
    /\ kpis[2].male_count = Num(2) /\ kpis[2].female_count = Num(3)

====
